---- MODULE Spec2Model ----
(***************************************************************************)
(* Model of the prompt-templating and generation/judging orchestration    *)
(* layer of the email editing tool (src/generate.py, class GenerateEmail). *)
(*                                                                         *)
(* Python strings are modelled as sequences of lexical tokens, so that    *)
(* str.format (substitution into a template) and json.loads (parsing of   *)
(* the model's text) are computed, not assumed.                           *)
(***************************************************************************)
EXTENDS Integers, Sequences, FiniteSets, TLC

VARIABLES env, prompts, generator, pc, req, sent, reply, outcome, nreq

vars == <<env, prompts, generator, pc, req, sent, reply, outcome, nreq>>

(* Number of caller requests explored in one run of the process. *)
MaxRequests == 2

----------------------------------------------------------------------------
(* Python values                                                           *)

PyNone == [t |-> "none"]

PyStr(s) == [t |-> "str", s |-> s]

PyInt(n) == [t |-> "int", n |-> n]

PyBool(b) == [t |-> "bool", b |-> b]

PyList(l) == [t |-> "list", l |-> l]

PyDict(d) == [t |-> "dict", d |-> d]

(* str(value), as str.format applies it to a substituted value. *)
str(v) ==
  CASE v.t = "str" -> v.s
    [] v.t = "none" -> <<"None">>
    [] v.t = "bool" -> IF v.b THEN <<"True">> ELSE <<"False">>
    [] OTHER -> <<"<object>">>

(* What a call produces: a returned value or a raised exception. *)
Return(v) == [kind |-> "return", exc |-> "", val |-> v]

Raise(e) == [kind |-> "raise", exc |-> e, val |-> PyNone]

Pending == [kind |-> "pending", exc |-> "", val |-> PyNone]

----------------------------------------------------------------------------
(* Templates and str.format                                                *)

Lit(toks) == [k |-> "lit", toks |-> toks, name |-> ""]

Ph(name) == [k |-> "ph", toks |-> <<>>, name |-> name]

(* The escapes "{{" and "}}" of a format string. *)
LBrace == [k |-> "lbrace", toks |-> <<>>, name |-> ""]

RBrace == [k |-> "rbrace", toks |-> <<>>, name |-> ""]

(* A format string that leaves an unknown field in place instead of        *)
(* raising (the behaviour of a "safe" substitution).                       *)
RECURSIVE format_keep_unknown(_, _)
format_keep_unknown(template, kwargs) ==
  IF template = <<>> THEN Return(PyStr(<<>>))
  ELSE LET seg == Head(template)
           rest == format_keep_unknown(Tail(template), kwargs)
           piece == CASE seg.k = "lit" -> seg.toks
                      [] seg.k = "lbrace" -> <<"{">>
                      [] seg.k = "rbrace" -> <<"}">>
                      [] OTHER -> IF seg.name \in DOMAIN kwargs
                                  THEN str(kwargs[seg.name])
                                  ELSE <<"{", seg.name, "}">>
       IN Return(PyStr(piece \o rest.val.s))

(* template.format with keyword arguments: every replacement field is     *)
(* looked up in                                                            *)
(* kwargs (KeyError when absent) and replaced by str(value); "{{" and "}}" *)
(* become single braces; keyword arguments that no field names are        *)
(* ignored.                                                                *)
RECURSIVE format(_, _)
format(template, kwargs) ==
  IF template = <<>> THEN Return(PyStr(<<>>))
  ELSE LET seg == Head(template)
       IN IF seg.k = "ph" /\ seg.name \notin DOMAIN kwargs
          THEN Raise("KeyError")
          ELSE LET rest == format(Tail(template), kwargs)
                   piece == CASE seg.k = "lit" -> seg.toks
                              [] seg.k = "lbrace" -> <<"{">>
                              [] seg.k = "rbrace" -> <<"}">>
                              [] OTHER -> str(kwargs[seg.name])
               IN IF rest.kind = "raise" THEN rest
                  ELSE Return(PyStr(piece \o rest.val.s))

----------------------------------------------------------------------------
(* json.loads over the lexical tokens of the text                          *)

(* The number tokens and their values. *)
NumTok == ("4" :> 4) @@ ("5" :> 5)

(* The string-literal tokens and the text between their quotes. *)
StrTok ==
  ("\"rating\"" :> <<"rating">>) @@
  ("\"explanation\"" :> <<"explanation">>) @@
  ("\"Mostly faithful.\"" :> <<"Mostly", "faithful.">>)

ParseOk(v, rest) == [ok |-> TRUE, val |-> v, rest |-> rest]

ParseFail == [ok |-> FALSE, val |-> PyNone, rest |-> <<>>]

EmptyDict == [x \in {} |-> PyNone]

RECURSIVE ParseValue(_), ParseElements(_, _), ParseMembers(_, _)

ParseValue(toks) ==
  IF toks = <<>> THEN ParseFail
  ELSE LET h == Head(toks)
           t == Tail(toks)
       IN CASE h \in DOMAIN NumTok -> ParseOk(PyInt(NumTok[h]), t)
            [] h \in DOMAIN StrTok -> ParseOk(PyStr(StrTok[h]), t)
            [] h = "null" -> ParseOk(PyNone, t)
            [] h = "true" -> ParseOk(PyBool(TRUE), t)
            [] h = "false" -> ParseOk(PyBool(FALSE), t)
            [] h = "[" ->
                 IF t # <<>> /\ Head(t) = "]" THEN ParseOk(PyList(<<>>), Tail(t))
                 ELSE ParseElements(t, <<>>)
            [] h = "{" ->
                 IF t # <<>> /\ Head(t) = "}" THEN ParseOk(PyDict(EmptyDict), Tail(t))
                 ELSE ParseMembers(t, EmptyDict)
            [] OTHER -> ParseFail

ParseElements(toks, acc) ==
  LET r == ParseValue(toks)
  IN IF ~r.ok \/ r.rest = <<>> THEN ParseFail
     ELSE CASE Head(r.rest) = "," -> ParseElements(Tail(r.rest), Append(acc, r.val))
            [] Head(r.rest) = "]" -> ParseOk(PyList(Append(acc, r.val)), Tail(r.rest))
            [] OTHER -> ParseFail

ParseMembers(toks, d) ==
  IF Len(toks) < 3 \/ Head(toks) \notin DOMAIN StrTok \/ toks[2] # ":"
  THEN ParseFail
  ELSE LET key == StrTok[Head(toks)]
           r == ParseValue(SubSeq(toks, 3, Len(toks)))
       IN IF ~r.ok \/ r.rest = <<>> THEN ParseFail
          ELSE LET d2 == (key :> r.val) @@ d
               IN CASE Head(r.rest) = "," -> ParseMembers(Tail(r.rest), d2)
                    [] Head(r.rest) = "}" -> ParseOk(PyDict(d2), Tail(r.rest))
                    [] OTHER -> ParseFail

(* json.loads(raw): the parsed value, or JSONDecodeError when the text is  *)
(* no JSON document or is followed by extra data.                          *)
json_loads(raw) ==
  LET r == ParseValue(raw.s)
  IN IF r.ok /\ r.rest = <<>> THEN Return(r.val) ELSE Raise("JSONDecodeError")

----------------------------------------------------------------------------
(* The process-wide configuration: environment and prompts.yaml            *)

ApiBase == PyStr(<<"https://example.openai.azure.com/openai/v1">>)

ApiKey == PyStr(<<"secret-key">>)

(* The environments the process can start in: each of the two variables    *)
(* is set or unset (os.getenv then returns None).                          *)
Environments ==
  {("OPENAI_API_BASE" :> b) @@ ("OPENAI_API_KEY" :> k) :
     b \in {PyNone, ApiBase}, k \in {PyNone, ApiKey}}

GenerateTemplates ==
  ("system" :> <<Lit(<<"You", "edit", "emails.">>)>>) @@
  ("user" :> <<Lit(<<"Email:">>), Ph("selected_text")>>)

ToneTemplates ==
  ("system" :> <<Lit(<<"Use", "a">>), Ph("tone"), Lit(<<"tone.">>)>>) @@
  ("user" :> <<Lit(<<"Rewrite", "in", "a">>), Ph("tone"), Lit(<<"tone:">>),
               Ph("selected_text")>>)

JudgeTemplates(metric) ==
  ("system" :> <<Lit(<<"Rate", metric, "as">>), LBrace, Lit(<<"\"rating\"", ":", "1-5">>),
                 RBrace>>) @@
  ("user" :> <<Lit(<<"Original:">>), Ph("selected_text"), Lit(<<"Edited:">>),
               Ph("model_response")>>)

(* A prompts.yaml with the six operations, each with both roles. *)
FullPrompts ==
  ("shorten" :> GenerateTemplates) @@ ("lengthen" :> GenerateTemplates) @@
  ("tone" :> ToneTemplates) @@
  ("faithfulness_judge" :> JudgeTemplates("faithfulness")) @@
  ("completeness_judge" :> JudgeTemplates("completeness")) @@
  ("conciseness_judge" :> JudgeTemplates("conciseness"))

Without(f, keys) == [k \in (DOMAIN f) \ keys |-> f[k]]

(* A prompts.yaml that lacks two of the operations. *)
PromptsMissingOperation == Without(FullPrompts, {"lengthen", "conciseness_judge"})

(* A prompts.yaml in which some operations lack one of the two roles. *)
PromptsMissingRole ==
  ("shorten" :> Without(GenerateTemplates, {"system"})) @@
  ("tone" :> Without(ToneTemplates, {"user"})) @@
  ("faithfulness_judge" :> Without(JudgeTemplates("faithfulness"), {"system"})) @@
  FullPrompts

(* A prompts.yaml whose templates name fields the orchestrator never       *)
(* supplies.                                                               *)
PromptsExtraField ==
  ("shorten" :> (("user" :> <<Lit(<<"Dear">>), Ph("recipient"), Ph("selected_text")>>)
                 @@ GenerateTemplates)) @@
  ("faithfulness_judge" :> (("user" :> <<Ph("selected_text"), Ph("model_response"),
                                        Lit(<<"Tone:">>), Ph("tone")>>)
                            @@ JudgeTemplates("faithfulness"))) @@
  ("completeness_judge" :> (("system" :> <<Lit(<<"Rubric:">>), Ph("rubric")>>)
                            @@ JudgeTemplates("completeness"))) @@
  FullPrompts

PromptSets ==
  {FullPrompts, PromptsMissingOperation, PromptsMissingRole, PromptsExtraField}

os_getenv(name) == env[name]

----------------------------------------------------------------------------
(* class GenerateEmail                                                     *)

DefaultBaseUrl == PyStr(<<"https://api.openai.com/v1">>)

(* The client constructor called by __init__ with the two values read from *)
(* the environment. A missing api_key is refused by the client; a missing  *)
(* base_url is replaced by the client's default endpoint.                  *)
OpenAI(base_url, api_key) ==
  IF api_key = PyNone THEN Raise("OpenAIError")
  ELSE Return([t |-> "client",
               base_url |-> IF base_url = PyNone THEN DefaultBaseUrl ELSE base_url,
               api_key |-> api_key])

NoGenerator == [constructed |-> FALSE, client |-> PyNone, deployment_name |-> ""]

(* GenerateEmail.__init__(model): the instance, or the exception the       *)
(* client constructor raised.                                              *)
init(model) ==
  LET c == OpenAI(os_getenv("OPENAI_API_BASE"), os_getenv("OPENAI_API_KEY"))
  IN IF c.kind = "raise" THEN c
     ELSE Return([constructed |-> TRUE, client |-> c.val, deployment_name |-> model])

(* A lookup that answers an empty template for an unknown name or role     *)
(* instead of raising.                                                     *)
get_prompt_default_empty(prompt_name, prompt_type, kwargs) ==
  IF prompt_name \notin DOMAIN prompts THEN Return(PyStr(<<>>))
  ELSE IF prompt_type \notin DOMAIN prompts[prompt_name] THEN Return(PyStr(<<>>))
  ELSE format(prompts[prompt_name][prompt_type], kwargs)

(* A lookup that substitutes leniently. *)
get_prompt_lenient(prompt_name, prompt_type, kwargs) ==
  IF prompt_name \notin DOMAIN prompts THEN Raise("KeyError")
  ELSE IF prompt_type \notin DOMAIN prompts[prompt_name] THEN Raise("KeyError")
  ELSE format_keep_unknown(prompts[prompt_name][prompt_type], kwargs)

(* get_prompt: prompts[prompt_name][prompt_type] (KeyError when either     *)
(* subscript is absent), then template.format with the keyword arguments.  *)
get_prompt(prompt_name, prompt_type, kwargs) ==
  IF prompt_name \notin DOMAIN prompts THEN Raise("KeyError")
  ELSE IF prompt_type \notin DOMAIN prompts[prompt_name] THEN Raise("KeyError")
  ELSE format(prompts[prompt_name][prompt_type], kwargs)

(* A request for one call of the chat-completions endpoint. *)
Call(messages) == [kind |-> "call", messages |-> messages]

(* The message list with the user message first. *)
send_prompt_user_first(user_prompt, system_msg) ==
  Call(<<[role |-> "user", content |-> user_prompt],
         [role |-> "system", content |-> system_msg]>>)

(* send_prompt: the two-message list handed to _call_api. *)
send_prompt(user_prompt, system_msg) ==
  Call(<<[role |-> "system", content |-> system_msg],
         [role |-> "user", content |-> user_prompt]>>)

(* The three statements with a handler around them that turns an          *)
(* exception of get_prompt into None.                                      *)
render_and_send_absorbs(prompt_name, args) ==
  LET system_prompt == get_prompt(prompt_name, "system", args)
  IN IF system_prompt.kind = "raise" THEN Return(PyNone)
     ELSE LET user_prompt == get_prompt(prompt_name, "user", args)
          IN IF user_prompt.kind = "raise" THEN Return(PyNone)
             ELSE send_prompt(user_prompt.val, system_prompt.val)

(* The three statements every branch of generate and judge runs: render    *)
(* the system prompt, render the user prompt, send both. An exception of   *)
(* get_prompt leaves the method at once.                                   *)
render_and_send(prompt_name, args) ==
  LET system_prompt == get_prompt(prompt_name, "system", args)
  IN IF system_prompt.kind = "raise" THEN system_prompt
     ELSE LET user_prompt == get_prompt(prompt_name, "user", args)
          IN IF user_prompt.kind = "raise" THEN user_prompt
             ELSE send_prompt(user_prompt.val, system_prompt.val)

(* generate whose last branch raises, as its docstring announces. *)
generate_raises_on_unknown(action, email_content, tone) ==
  IF action = "shorten" THEN render_and_send("shorten", [selected_text |-> email_content])
  ELSE IF action = "lengthen"
  THEN render_and_send("lengthen", [selected_text |-> email_content])
  ELSE IF action = "tone"
  THEN render_and_send("tone", [selected_text |-> email_content, tone |-> tone])
  ELSE Raise("ValueError")

(* generate, up to the call of the endpoint: what it returns or raises     *)
(* without calling, or the call it makes.                                  *)
generate(action, email_content, tone) ==
  IF action = "shorten" THEN render_and_send("shorten", [selected_text |-> email_content])
  ELSE IF action = "lengthen"
  THEN render_and_send("lengthen", [selected_text |-> email_content])
  ELSE IF action = "tone"
  THEN render_and_send("tone", [selected_text |-> email_content, tone |-> tone])
  ELSE Return(PyNone)

metric_map ==
  ("faithfulness" :> "faithfulness_judge") @@
  ("completeness" :> "completeness_judge") @@
  ("conciseness" :> "conciseness_judge")

(* judge that answers None for a metric it does not know. *)
judge_none_on_unknown(metric, original_text, edited_text) ==
  IF metric \notin DOMAIN metric_map THEN Return(PyNone)
  ELSE render_and_send(metric_map[metric],
         [selected_text |-> original_text, model_response |-> edited_text])

(* judge, up to the call of the endpoint. *)
judge(metric, original_text, edited_text) ==
  IF metric \notin DOMAIN metric_map THEN Raise("ValueError")
  ELSE render_and_send(metric_map[metric],
         [selected_text |-> original_text, model_response |-> edited_text])

(* What the endpoint call produces: an exception of the client, or a       *)
(* response with a list of choices.                                        *)
ApiRaises(e) == [kind |-> "raise", exc |-> e, choices |-> <<>>]

ApiResponse(choices) == [kind |-> "response", exc |-> "", choices |-> choices]

(* The body of the try block of _call_api: create, then                    *)
(* response.choices[0].message.content.                                    *)
create_and_extract(result) ==
  IF result.kind = "raise" THEN Raise(result.exc)
  ELSE IF Len(result.choices) = 0 THEN Raise("IndexError")
  ELSE Return(result.choices[1].message.content)

(* _call_api without its exception handler. *)
call_api_no_except(result) == create_and_extract(result)

(* _call_api: any Exception of the try block is printed and None is        *)
(* returned.                                                               *)
call_api(result) ==
  LET r == create_and_extract(result)
  IN IF r.kind = "raise" THEN Return(PyNone) ELSE r

(* generate that returns the prompt it sent instead of the response. *)
generate_result_echo(model_response) ==
  IF model_response.kind = "raise" THEN model_response
  ELSE IF model_response.val = PyNone THEN model_response
  ELSE Return(sent[1][2].content)

(* generate after send_prompt: return model_response. *)
generate_result(model_response) == model_response

(* judge that never parses. *)
judge_result_raw(raw) == raw

(* judge after send_prompt: None stays None, text that json.loads accepts  *)
(* is returned parsed, any other text is returned as it is.                *)
judge_result(raw) ==
  IF raw.kind = "raise" THEN raw
  ELSE IF raw.val = PyNone THEN Return(PyNone)
  ELSE LET parsed == json_loads(raw.val)
       IN IF parsed.kind = "raise" THEN Return(raw.val) ELSE parsed

----------------------------------------------------------------------------
(* The callers' inputs and the endpoint's answers                          *)

Models == {"gpt-4.1", "gpt-4o-mini"}

TestEmail == PyStr(<<"Hi,", "just", "checking", "in", "on", "the", "meeting", "notes.">>)

ReportEmail == PyStr(<<"Please", "send", "the", "report.">>)

EmailTexts == {TestEmail, ReportEmail}

Actions == {"shorten", "lengthen", "tone", "summarize"}

Tones == {PyNone, PyStr(<<"friendly">>), PyStr(<<"sarcastic">>)}

Metrics == {"faithfulness", "completeness", "conciseness", "fluency"}

ShortenedEmail == <<"Checking", "in", "on", "meeting", "notes.">>

EditedTexts == {PyStr(ShortenedEmail)}

RatingJson ==
  <<"{", "\"rating\"", ":", "4", ",", "\"explanation\"", ":", "\"Mostly faithful.\"", "}">>

RatingJsonSwapped ==
  <<"{", "\"explanation\"", ":", "\"Mostly faithful.\"", ",", "\"rating\"", ":", "5", "}">>

(* Texts the endpoint may answer with. *)
ModelTexts ==
  { ShortenedEmail,
    <<"Looks", "faithful", "to", "me.">>,
    <<>>,
    RatingJson,
    RatingJsonSwapped,
    <<"Rating:", "4">>,
    <<"4", "stars">>,
    <<"{", "\"rating\"", ":", "4">>,
    <<"4">>,
    <<"null">>,
    <<"true">>,
    <<"\"Mostly faithful.\"">>,
    <<"[", "4", ",", "5", "]">>,
    <<"{", "}">>,
    <<"{", "\"rating\"", ":", "4", "}">> }

ApiFaults == {"APIConnectionError", "APITimeoutError", "AuthenticationError", "RateLimitError"}

ApiResults ==
  {ApiRaises(e) : e \in ApiFaults} \cup
  {ApiResponse(<<>>), ApiResponse(<<[message |-> [content |-> PyNone]]>>)} \cup
  {ApiResponse(<<[message |-> [content |-> PyStr(t)]]>>) : t \in ModelTexts}

PromptNames == (DOMAIN FullPrompts) \cup {"summarize"}

PromptTypes == {"system", "user", "assistant"}

KwargSets ==
  { EmptyDict,
    [selected_text |-> TestEmail],
    [tone |-> PyStr(<<"friendly">>)],
    [selected_text |-> TestEmail, tone |-> PyNone],
    [selected_text |-> TestEmail, model_response |-> PyStr(ShortenedEmail)],
    [selected_text |-> TestEmail, model_response |-> PyStr(ShortenedEmail),
     tone |-> PyStr(<<"friendly">>), recipient |-> PyStr(<<"Ann">>)] }

----------------------------------------------------------------------------
(* The state machine                                                       *)

NoRequest ==
  [op |-> "none", name |-> "", role |-> "", text |-> PyNone, extra |-> PyNone,
   kwargs |-> EmptyDict]

NoReply == [kind |-> "none", exc |-> "", choices |-> <<>>]

Init ==
  /\ env \in Environments
  /\ prompts \in PromptSets
  /\ generator = NoGenerator
  /\ pc = "start"
  /\ req = NoRequest
  /\ sent = <<>>
  /\ reply = NoReply
  /\ outcome = Pending
  /\ nreq = 0

(* GenerateEmail(model) *)
Construct ==
  \E model \in Models :
    /\ pc = "start"
    /\ LET r == init(model)
       IN IF r.kind = "raise"
          THEN /\ pc' = "init_failed"
               /\ outcome' = r
               /\ UNCHANGED generator
          ELSE /\ pc' = "ready"
               /\ generator' = r.val
               /\ UNCHANGED outcome
    /\ UNCHANGED <<env, prompts, req, sent, reply, nreq>>

(* A method of the instance is entered with the request `r` and runs until *)
(* it returns, raises, or calls the endpoint.                              *)
Enter(r, step) ==
  /\ nreq' = nreq + 1
  /\ req' = r
  /\ reply' = NoReply
  /\ IF step.kind = "call"
     THEN /\ sent' = <<step.messages>>
          /\ outcome' = Pending
          /\ pc' = "awaiting"
     ELSE /\ sent' = <<>>
          /\ outcome' = step
          /\ pc' = "ready"
  /\ UNCHANGED <<env, prompts, generator>>

Generate ==
  \E action \in Actions, email_content \in EmailTexts, tone \in Tones :
    /\ pc = "ready"
    /\ nreq < MaxRequests
    /\ Enter([op |-> "generate", name |-> action, role |-> "",
              text |-> email_content,
              extra |-> tone, kwargs |-> EmptyDict],
             generate(action, email_content, tone))

Judge ==
  \E metric \in Metrics, original_text \in EmailTexts, edited_text \in EditedTexts :
    /\ pc = "ready"
    /\ nreq < MaxRequests
    /\ Enter([op |-> "judge", name |-> metric, role |-> "", text |-> original_text,
              extra |-> edited_text, kwargs |-> EmptyDict],
             judge(metric, original_text, edited_text))

GetPrompt ==
  \E prompt_name \in PromptNames, prompt_type \in PromptTypes, kwargs \in KwargSets :
    /\ pc = "ready"
    /\ nreq < MaxRequests
    /\ Enter([op |-> "get_prompt", name |-> prompt_name, role |-> prompt_type,
              text |-> PyNone, extra |-> PyNone, kwargs |-> kwargs],
             get_prompt(prompt_name, prompt_type, kwargs))

(* The endpoint call made by _call_api ends, and the method that made it   *)
(* runs to its end.                                                        *)
ApiReturns ==
  \E result \in ApiResults :
    /\ pc = "awaiting"
    /\ reply' = result
    /\ outcome' = IF req.op = "generate" THEN generate_result(call_api(result))
                  ELSE judge_result(call_api(result))
    /\ pc' = "ready"
    /\ UNCHANGED <<env, prompts, generator, req, sent, nreq>>

Next == Construct \/ Generate \/ Judge \/ GetPrompt \/ ApiReturns

Spec == Init /\ [][Next]_vars

----------------------------------------------------------------------------
(* Vocabulary of the properties                                            *)

GenerateActions == {"shorten", "lengthen", "tone"}

JudgeMetrics == {"faithfulness", "completeness", "conciseness"}

(* The judge operation of a metric. *)
JudgeOperation(metric) ==
  CASE metric = "faithfulness" -> "faithfulness_judge"
    [] metric = "completeness" -> "completeness_judge"
    [] metric = "conciseness" -> "conciseness_judge"

(* The request in `req` is over: its method has returned or raised. *)
Finished == pc = "ready" /\ outcome.kind # "pending"

(* The exchange of the request failed: the client raised, or no text can   *)
(* be extracted from the response.                                         *)
ExchangeFailed ==
  \/ reply.kind = "raise"
  \/ /\ reply.kind = "response"
     /\ \/ Len(reply.choices) = 0
        \/ reply.choices[1].message.content = PyNone

(* The exchange of the request succeeded with the text `reply_text`. *)
ExchangeSucceeded == reply.kind = "response" /\ ~ExchangeFailed

ReplyText == reply.choices[1].message.content

(* The request is a generate or judge request for a recognized operation;  *)
(* OperationOf is the name of its templates and ValuesOf its placeholder   *)
(* values.                                                                 *)
Recognized ==
  \/ req.op = "generate" /\ req.name \in GenerateActions
  \/ req.op = "judge" /\ req.name \in JudgeMetrics

OperationOf == IF req.op = "judge" THEN JudgeOperation(req.name) ELSE req.name

ValuesOf ==
  IF req.op = "judge" THEN [selected_text |-> req.text, model_response |-> req.extra]
  ELSE IF req.name = "tone" THEN [selected_text |-> req.text, tone |-> req.extra]
  ELSE [selected_text |-> req.text]

(* The names of the replacement fields of a template. *)
Placeholders(template) ==
  {template[i].name : i \in {j \in 1..Len(template) : template[j].k = "ph"}}

TemplateExists(name, role) == name \in DOMAIN prompts /\ role \in DOMAIN prompts[name]

(* Both templates of the operation exist and `values` covers their fields. *)
Renders(name, values) ==
  \A role \in {"system", "user"} :
    /\ TemplateExists(name, role)
    /\ Placeholders(prompts[name][role]) \subseteq DOMAIN values

(* The text of a template with its fields replaced, for a template that    *)
(* renders.                                                                *)
RECURSIVE Rendered(_, _)
Rendered(template, values) ==
  IF template = <<>> THEN <<>>
  ELSE LET seg == Head(template)
       IN (CASE seg.k = "lit" -> seg.toks
             [] seg.k = "lbrace" -> <<"{">>
             [] seg.k = "rbrace" -> <<"}">>
             [] seg.k = "ph" -> IF values[seg.name] = PyNone THEN <<"None">>
                                ELSE values[seg.name].s)
          \o Rendered(Tail(template), values)

----------------------------------------------------------------------------
(* C1: when the exchange of a generate or judge request fails (the client  *)
(* raises a transport, timeout, authentication or rate-limit error, or the *)
(* response holds no text), the request returns None and raises nothing.   *)
C1_ExchangeFailureYieldsNone ==
  (req.op \in {"generate", "judge"} /\ Finished /\ ExchangeFailed)
    => outcome = Return(PyNone)

C1_Witness ==
  /\ req.op = "judge" /\ req.name = "conciseness"
  /\ Finished
  /\ reply = ApiRaises("RateLimitError")
  /\ outcome = Return(PyNone)

(* C2: a request for a recognized operation whose templates render makes   *)
(* exactly one endpoint call, with the two messages (system, user) holding *)
(* the rendered system and user templates; no request ever makes a second  *)
(* call, in particular not after a failed one.                             *)
C2_OneOrderedCall ==
  /\ Len(sent) <= 1
  /\ (Recognized /\ Renders(OperationOf, ValuesOf)) =>
       sent = << <<[role |-> "system",
                    content |-> PyStr(Rendered(prompts[OperationOf]["system"], ValuesOf))],
                   [role |-> "user",
                    content |-> PyStr(Rendered(prompts[OperationOf]["user"], ValuesOf))]>> >>
  /\ (Finished /\ ExchangeFailed) => Len(sent) = 1

C2_Witness ==
  /\ req.op = "generate" /\ req.name = "tone" /\ req.extra = PyStr(<<"friendly">>)
  /\ Finished
  /\ reply = ApiRaises("APIConnectionError")
  /\ Len(sent) = 1
  /\ sent[1][2].content = PyStr(<<"Rewrite", "in", "a", "friendly", "tone:">> \o req.text.s)

C4_JudgeMetricDispatch ==
  req.op = "judge" =>
    IF req.name \notin JudgeMetrics
    THEN pc = "ready" /\ outcome = Raise("ValueError") /\ sent = <<>>
    ELSE LET name == JudgeOperation(req.name)
         IN IF Renders(name, ValuesOf)
            THEN /\ Len(sent) = 1
                 /\ sent[1][1].content = PyStr(Rendered(prompts[name]["system"], ValuesOf))
                 /\ sent[1][2].content = PyStr(Rendered(prompts[name]["user"], ValuesOf))
            ELSE pc = "ready" /\ outcome = Raise("KeyError") /\ sent = <<>>

C4_Witness ==
  /\ req.op = "judge" /\ req.name = "fluency"
  /\ outcome = Raise("ValueError")

(* Texts of the model that are no JSON document. *)
PlainTexts ==
  { ShortenedEmail, <<"Looks", "faithful", "to", "me.">>, <<>>, <<"Rating:", "4">>,
    <<"4", "stars">>, <<"{", "\"rating\"", ":", "4">> }

(* C5: for a supported metric and a successful exchange, judge returns the *)
(* parsed record when the text is a record with rating and explanation     *)
(* (rating 4 for the text {"rating": 4, "explanation": "Mostly            *)
(* faithful."}), and returns the text unchanged when it is plain text that *)
(* cannot be parsed.                                                       *)
C5_JudgeParsesOrFallsBack ==
  (req.op = "judge" /\ req.name \in JudgeMetrics /\ Finished /\ ExchangeSucceeded) =>
    /\ ReplyText.s = RatingJson =>
         outcome = Return(PyDict((<<"rating">> :> PyInt(4)) @@
                                 (<<"explanation">> :> PyStr(<<"Mostly", "faithful.">>))))
    /\ ReplyText.s = RatingJsonSwapped =>
         outcome = Return(PyDict((<<"rating">> :> PyInt(5)) @@
                                 (<<"explanation">> :> PyStr(<<"Mostly", "faithful.">>))))
    /\ ReplyText.s \in PlainTexts => outcome = Return(ReplyText)

C5_Witness ==
  /\ req.op = "judge" /\ req.name = "faithfulness"
  /\ Finished
  /\ ExchangeSucceeded
  /\ ReplyText.s = RatingJson
  /\ outcome.val.t = "dict"
  /\ outcome.val.d[<<"rating">>] = PyInt(4)

(* A record with both fields of a judgment, and a text that parses to one. *)
IsJudgment(v) ==
  /\ v.t = "dict"
  /\ <<"rating">> \in DOMAIN v.d
  /\ <<"explanation">> \in DOMAIN v.d

ParsesAsJudgment(text) ==
  LET r == ParseValue(text) IN r.ok /\ r.rest = <<>> /\ IsJudgment(r.val)

(* C6: every value judge returns for a supported metric is a record with   *)
(* both a rating and an explanation field, or the model's text when that   *)
(* text does not parse as such a record, or None when the exchange failed; *)
(* nothing else is returned.                                               *)
C6_JudgeResultKinds ==
  (req.op = "judge" /\ req.name \in JudgeMetrics /\ Finished /\ outcome.kind = "return") =>
    \/ IsJudgment(outcome.val)
    \/ /\ ExchangeSucceeded
       /\ outcome.val = ReplyText
       /\ ~ParsesAsJudgment(ReplyText.s)
    \/ outcome.val = PyNone /\ ExchangeFailed

(* C7: for an action in {shorten, lengthen, tone} and a successful         *)
(* exchange, generate returns exactly the text of the model.               *)
C7_GenerateReturnsModelText ==
  (req.op = "generate" /\ req.name \in GenerateActions /\ Finished /\ ExchangeSucceeded)
    => outcome = Return(ReplyText)

C7_Witness ==
  /\ req.op = "generate" /\ req.name = "shorten" /\ req.text = TestEmail
  /\ Finished
  /\ ExchangeSucceeded
  /\ ReplyText = PyStr(ShortenedEmail)
  /\ outcome = Return(PyStr(ShortenedEmail))

(* C8: get_prompt for an operation name that is not in the template set,   *)
(* or a role that its operation does not have, raises the not-found error  *)
(* (KeyError) and returns no string.                                       *)
C8_UnknownTemplateRaises ==
  (req.op = "get_prompt" /\ ~TemplateExists(req.name, req.role))
    => outcome = Raise("KeyError")

C8_Witness ==
  /\ req.op = "get_prompt"
  /\ req.name \in DOMAIN prompts
  /\ req.role \notin DOMAIN prompts[req.name]
  /\ req.kwargs # EmptyDict
  /\ outcome = Raise("KeyError")

(* C9: get_prompt for an existing template and values that omit a field    *)
(* the template references raises the missing-placeholder error (KeyError) *)
(* and returns no string.                                                  *)
C9_MissingPlaceholderRaises ==
  (/\ req.op = "get_prompt"
   /\ TemplateExists(req.name, req.role)
   /\ ~(Placeholders(prompts[req.name][req.role]) \subseteq DOMAIN req.kwargs))
    => outcome = Raise("KeyError")

C9_Witness ==
  /\ req.op = "get_prompt" /\ req.name = "tone" /\ req.role = "user"
  /\ TemplateExists("tone", "user")
  /\ DOMAIN req.kwargs = {"selected_text"}
  /\ outcome = Raise("KeyError")

(* C10: constructing GenerateEmail fails whenever OPENAI_API_BASE or       *)
(* OPENAI_API_KEY is absent, so no instance exists with either missing.    *)
C10_ConstructionNeedsBothValues ==
  /\ generator.constructed =>
       (env["OPENAI_API_BASE"] # PyNone /\ env["OPENAI_API_KEY"] # PyNone)
  /\ (pc # "start" /\ (env["OPENAI_API_BASE"] = PyNone \/ env["OPENAI_API_KEY"] = PyNone))
       => (pc = "init_failed" /\ outcome.kind = "raise")

(* C11: a generate or judge request dispatches a model call only after     *)
(* both the system and the user template of its operation have rendered;   *)
(* when either rendering fails (unknown operation or role, missing         *)
(* placeholder) the request raises that error to its caller, does not      *)
(* return None, and makes no model call.                                   *)
C11_RenderBeforeDispatch ==
  (req.op \in {"generate", "judge"}) =>
    /\ sent # <<>> => (Recognized /\ Renders(OperationOf, ValuesOf))
    /\ (Recognized /\ ~Renders(OperationOf, ValuesOf)) =>
         (pc = "ready" /\ outcome = Raise("KeyError") /\ sent = <<>>)

C11_Witness ==
  /\ req.op = "generate" /\ req.name = "shorten"
  /\ TemplateExists("shorten", "system")
  /\ TemplateExists("shorten", "user")
  /\ "recipient" \in Placeholders(prompts["shorten"]["user"])
  /\ outcome = Raise("KeyError")
  /\ sent = <<>>

(* The user message of a tone request carries the tone value word for word. *)
ToneSentVerbatim ==
  /\ Len(sent) = 1
  /\ sent[1][1].content = PyStr(Rendered(prompts["tone"]["system"], ValuesOf))
  /\ sent[1][2].content = PyStr(Rendered(prompts["tone"]["user"], ValuesOf))
  /\ \E i \in 1..Len(sent[1][2].content.s) :
       SubSeq(sent[1][2].content.s, i, i + Len(req.extra.s) - 1) = req.extra.s

(* C12: generate("tone", text) without a tone value renders no prompt with *)
(* a stand-in for the tone and dispatches no model call; with a tone value *)
(* present, also one outside {friendly, sympathetic, professional}, the    *)
(* value is substituted word for word into the rendered templates.         *)
C12_ToneRequiresValue ==
  (req.op = "generate" /\ req.name = "tone") =>
    IF req.extra = PyNone
    THEN sent = <<>>
    ELSE Renders("tone", ValuesOf) => ToneSentVerbatim

(* The half of C12 about a tone value that is present. *)
C12_PresentToneVerbatim ==
  (req.op = "generate" /\ req.name = "tone" /\ req.extra # PyNone
     /\ Renders("tone", ValuesOf)) => ToneSentVerbatim

====
